---- MODULE Spec2Model ----
(***************************************************************************)
(* A model of ordered_multimap::ordered_multimap_t<Key, Value>             *)
(* (ordered_multimap.hpp): a std::list of (key, value) pairs plus a        *)
(* std::multimap<Key, list::iterator> over the same entries.               *)
(*                                                                         *)
(* A list node is a record [id, key, val]; id stands for the node's        *)
(* address, so a list iterator (a "handle") is a node id, and list.end()   *)
(* of a container is a value of its own.  The multimap is a sequence of    *)
(* [key, it] records in the multimap's iteration order: ascending keys,    *)
(* equivalent keys in the order of their insertion.                        *)
(***************************************************************************)
EXTENDS Integers, Sequences, FiniteSets, TLC

\* Bounds of the model.
MaxNodes == 3
MaxPair == 2
MaxKey == 2
MaxVal == 2

Containers == {"A", "B"}
Keys == 1 .. MaxKey
Vals == 1 .. MaxVal
\* The addresses a list node can have: enough for a container at capacity and
\* for a copy or a merge of two.
Nodes == 1 .. (IF MaxNodes > 2 * MaxPair THEN MaxNodes ELSE 2 * MaxPair)

\* The comparison functions the tests and the example pass to sort().
Cmps == {"key_lt", "key_gt", "val_lt"}

VARIABLES list, table, pc, it, last, calls

vars == <<list, table, pc, it, last, calls>>

----------------------------------------------------------------------------
\* std::list

\* list.end() of container c: the sentinel position of that list.
End(c) == IF c = "A" THEN -1 ELSE -2

\* The outcome of std::next(list.end()) in a build that does not wrap around
\* to list.begin(): not a position of any list.
Bad == 0

Other(c) == IF c = "A" THEN "B" ELSE "A"

Ids(l) == {l[i].id : i \in DOMAIN l}

\* The position (1-based) of the node with address h in l; 0 when there is none.
Pos(l, h) == IF h \in Ids(l) THEN CHOOSE i \in DOMAIN l : l[i].id = h ELSE 0

\* *h
Deref(l, h) == l[Pos(l, h)]

\* list.begin()
Begin(l, e) == IF l = <<>> THEN e ELSE l[1].id

\* std::next(h) for a handle h of a live node of l.
StdNext(l, e, h) == IF Pos(l, h) < Len(l) THEN l[Pos(l, h) + 1].id ELSE e

\* list.erase(h)
ListErase(l, h) == SelectSeq(l, LAMBDA x : x.id # h)

\* The address the allocator gives to the next list node: one that no live
\* node of either list has.
NewNode(used) == CHOOSE n \in Nodes \ used : \A m \in Nodes \ used : n <= m

----------------------------------------------------------------------------
\* std::multimap<Key, iterator>

\* Index of the first entry whose key is not less than k (Len + 1: table.end()).
LowerBound(t, k) == 1 + Cardinality({i \in DOMAIN t : t[i].key < k})

\* Index of the first entry whose key is greater than k.
UpperBound(t, k) == 1 + Cardinality({i \in DOMAIN t : t[i].key <= k})

\* table.insert({k, h}): after the last entry with an equivalent key.
TableInsert(t, k, h) ==
    LET u == UpperBound(t, k)
    IN  SubSeq(t, 1, u - 1) \o <<[key |-> k, it |-> h]>> \o SubSeq(t, u, Len(t))

\* table.find(k): the first entry with key k (the implementations of
\* std::multimap::find return the lower bound), Len + 1 (table.end()) if none.
TableFind(t, k) ==
    IF LowerBound(t, k) < UpperBound(t, k) THEN LowerBound(t, k) ELSE Len(t) + 1

\* table.erase(first, last) on the index range [i, j).
TableErase(t, i, j) == SubSeq(t, 1, i - 1) \o SubSeq(t, j, Len(t))

----------------------------------------------------------------------------
\* Operations of ordered_multimap_t on a container value S = [list, table],
\* whose list.end() is e.  Each returns the new list and table and the
\* value the operation returns.

Result(l, t, r) == [list |-> l, table |-> t, ret |-> r]

\* An insert at the front of the list.
insert_front(S, e, n, k, v) ==
    Result(<<[id |-> n, key |-> k, val |-> v]>> \o S.list,
           TableInsert(S.table, k, n), n)

\* An insert of a map with unique keys: a present key gets the value.
insert_unique(S, e, n, k, v) ==
    IF LowerBound(S.table, k) = UpperBound(S.table, k)
    THEN Result(Append(S.list, [id |-> n, key |-> k, val |-> v]),
                TableInsert(S.table, k, n), n)
    ELSE Result([i \in DOMAIN S.list |->
                    IF S.list[i].key = k THEN [S.list[i] EXCEPT !.val = v]
                    ELSE S.list[i]],
                S.table, S.table[LowerBound(S.table, k)].it)

\* insert(key, value); n is the address of the new list node.
insert(S, e, n, k, v) ==
    Result(Append(S.list, [id |-> n, key |-> k, val |-> v]),
           TableInsert(S.table, k, n), n)

\* A clear that empties the list only.
clear_list_only(S, e) == Result(<<>>, S.table, e)

\* clear()
clear(S, e) == Result(<<>>, <<>>, e)

\* The handles the table holds in the index range [i, j).
RangeIts(t, i, j) == {t[x].it : x \in i .. (j - 1)}

\* An update that writes the first matching entry only.
update_first(S, e, n, k, v) ==
    LET lo == LowerBound(S.table, k)
    IN  IF lo = UpperBound(S.table, k)
        THEN insert(S, e, n, k, v)
        ELSE Result([i \in DOMAIN S.list |->
                        IF S.list[i].id = S.table[lo].it
                        THEN [S.list[i] EXCEPT !.val = v]
                        ELSE S.list[i]],
                    S.table, S.table[lo].it)

\* update(key, value); n is the address of the list node of the no-match case.
update(S, e, n, k, v) ==
    LET lo == LowerBound(S.table, k)
        hi == UpperBound(S.table, k)
    IN  IF lo = hi
        THEN insert(S, e, n, k, v)
        ELSE Result([i \in DOMAIN S.list |->
                        IF S.list[i].id \in RangeIts(S.table, lo, hi)
                        THEN [S.list[i] EXCEPT !.val = v]
                        ELSE S.list[i]],
                    S.table, S.table[lo].it)

\* The loop of erase(key) over the table range [i, j): the list it leaves and
\* the handle it has in next.
RECURSIVE EraseKeyLoop(_, _, _, _, _, _)
EraseKeyLoop(l, t, i, j, next, e) ==
    IF i >= j
    THEN [list |-> l, next |-> next]
    ELSE EraseKeyLoop(ListErase(l, t[i].it), t, i + 1, j,
                      IF next = e THEN StdNext(l, e, t[i].it) ELSE next, e)

\* An erase(key) that erases one occurrence only.
erase_key_first(S, e, k) ==
    LET lo == LowerBound(S.table, k)
    IN  IF lo = UpperBound(S.table, k)
        THEN Result(S.list, S.table, e)
        ELSE Result(ListErase(S.list, S.table[lo].it),
                    TableErase(S.table, lo, lo + 1),
                    StdNext(S.list, e, S.table[lo].it))

\* erase(key)
erase_key(S, e, k) ==
    LET lo == LowerBound(S.table, k)
        hi == UpperBound(S.table, k)
        L  == EraseKeyLoop(S.list, S.table, lo, hi, e, e)
    IN  IF lo = hi
        THEN Result(S.list, S.table, e)
        ELSE Result(L.list, TableErase(S.table, lo, hi), L.next)

\* erase(iterator), for a handle h that can be dereferenced in this list.
erase_it(S, e, h) ==
    LET i == TableFind(S.table, Deref(S.list, h).key)
    IN  IF i = Len(S.table) + 1
        THEN Result(S.list, S.table, e)
        ELSE Result(ListErase(S.list, S.table[i].it),
                    TableErase(S.table, i, i + 1),
                    StdNext(S.list, e, h))

\* erase(iterator) called on S with a handle h of a live node of another
\* container, whose list is ol with sentinel oe: it_list->first and ++it_list
\* read the other list, table.find and the two erase calls act on S.
erase_foreign(S, e, ol, oe, h) ==
    LET i == TableFind(S.table, Deref(ol, h).key)
    IN  IF i = Len(S.table) + 1
        THEN Result(S.list, S.table, e)
        ELSE Result(ListErase(S.list, S.table[i].it),
                    TableErase(S.table, i, i + 1),
                    StdNext(ol, oe, h))

\* An erase(key, value) that erases the first entry of the key, whatever its
\* value.
erase_key_value_any(S, e, k, v) ==
    LET lo == LowerBound(S.table, k)
    IN  IF lo = UpperBound(S.table, k)
        THEN Result(S.list, S.table, 0)
        ELSE Result(ListErase(S.list, S.table[lo].it),
                    TableErase(S.table, lo, lo + 1), 1)

\* erase(key, value)
erase_key_value(S, e, k, v) ==
    LET lo == LowerBound(S.table, k)
        hi == UpperBound(S.table, k)
        M  == {i \in lo .. (hi - 1) : Deref(S.list, S.table[i].it).val = v}
        i  == CHOOSE x \in M : \A y \in M : x <= y
    IN  IF M = {}
        THEN Result(S.list, S.table, 0)
        ELSE Result(ListErase(S.list, S.table[i].it),
                    TableErase(S.table, i, i + 1), 1)

\* The loop of extract(key) over the table range [i, j): the list it leaves
\* and the values it has pushed to result.
RECURSIVE ExtractLoop(_, _, _, _, _)
ExtractLoop(l, t, i, j, result) ==
    IF i >= j
    THEN [list |-> l, result |-> result]
    ELSE ExtractLoop(ListErase(l, t[i].it), t, i + 1, j,
                     Append(result, Deref(l, t[i].it).val))

\* extract(key): ret is the vector of values.
extract(S, e, k) ==
    LET lo == LowerBound(S.table, k)
        hi == UpperBound(S.table, k)
        L  == ExtractLoop(S.list, S.table, lo, hi, <<>>)
    IN  Result(L.list, TableErase(S.table, lo, hi), L.result)

\* A find that takes the lower bound for a match.
find_lower_bound(S, e, k) ==
    IF LowerBound(S.table, k) = Len(S.table) + 1
    THEN e
    ELSE S.table[LowerBound(S.table, k)].it

\* find(key)
find(S, e, k) ==
    IF TableFind(S.table, k) = Len(S.table) + 1
    THEN e
    ELSE S.table[TableFind(S.table, k)].it

\* has(key)
has(S, k) == TableFind(S.table, k) # Len(S.table) + 1

\* A count that tells presence only.
count_one(S, k) == IF LowerBound(S.table, k) < UpperBound(S.table, k) THEN 1 ELSE 0

\* count(key)
count(S, k) == UpperBound(S.table, k) - LowerBound(S.table, k)

\* size()
size(S) == Len(S.list)

\* std::next(list.end()): undefined; a circular list gives list.begin(),
\* another build gives a handle that is no position of the list.
NextOfEnd(l, e) == {Begin(l, e), Bad}

\* equal_range(key): the set of pairs <<begin, end>> a build can return.
equal_range(S, e, k) ==
    LET lo == LowerBound(S.table, k)
        hi == UpperBound(S.table, k)
    IN  IF lo = hi
        THEN {<<e, e>>}
        ELSE IF hi = Len(S.table) + 1
             THEN {<<S.table[lo].it, x>> : x \in NextOfEnd(S.list, e)}
             ELSE {<<S.table[lo].it, StdNext(S.list, e, S.table[hi].it)>>}

\* std::prev(h) for a position h of l other than list.begin().
StdPrev(l, e, h) == IF h = e THEN l[Len(l)].id ELSE l[Pos(l, h) - 1].id

\* for (it = h; it != end(); ++it): the pairs <<key, value>> that *it gives,
\* with h = begin() those of the whole traversal.
RECURSIVE Forward(_, _, _)
Forward(l, e, h) ==
    IF h = e
    THEN <<>>
    ELSE <<<<Deref(l, h).key, Deref(l, h).val>>>> \o Forward(l, e, StdNext(l, e, h))

\* for (it = r; it != rend(); ++it) for the reverse iterator r with base b:
\* *it is *std::prev(b), rbegin() has base end() and rend() has base begin().
RECURSIVE Backward(_, _, _)
Backward(l, e, b) ==
    IF b = Begin(l, e)
    THEN <<>>
    ELSE <<<<Deref(l, StdPrev(l, e, b)).key, Deref(l, StdPrev(l, e, b)).val>>>>
         \o Backward(l, e, StdPrev(l, e, b))

\* std::advance(h, n) for n >= 0: n times ++h.
RECURSIVE Advance(_, _, _, _)
Advance(l, e, h, n) == IF n = 0 THEN h ELSE Advance(l, e, StdNext(l, e, h), n - 1)

\* An at that gives the last entry for a position past the end.
at_last(S, e, p) ==
    IF S.list = <<>> THEN e
    ELSE IF p >= Len(S.list) THEN S.list[Len(S.list)].id
    ELSE S.list[p + 1].id

\* at(position)
at(S, e, p) == IF p >= Len(S.list) THEN e ELSE S.list[p + 1].id

\* index_of(it), for a handle of a live node.
index_of(S, h) == Pos(S.list, h) - 1

\* keys(), values()
keys(S) == [i \in DOMAIN S.list |-> S.list[i].key]
values(S) == [i \in DOMAIN S.list |-> S.list[i].val]

\* The comparison functions: compare_lt, compare_gt, and by value.
Less(cmp, a, b) ==
    CASE cmp = "key_lt" -> a.key < b.key
      [] cmp = "key_gt" -> a.key > b.key
      [] OTHER          -> a.val < b.val

\* std::list::sort is stable: x goes after every element it is not less than.
RECURSIVE InsertSorted(_, _, _)
InsertSorted(s, x, cmp) ==
    IF s = <<>> THEN <<x>>
    ELSE IF Less(cmp, x, Head(s)) THEN <<x>> \o s
    ELSE <<Head(s)>> \o InsertSorted(Tail(s), x, cmp)

RECURSIVE StableSort(_, _)
StableSort(l, cmp) ==
    IF l = <<>> THEN <<>>
    ELSE InsertSorted(StableSort(SubSeq(l, 1, Len(l) - 1), cmp), l[Len(l)], cmp)

\* A sort that puts equivalent entries in the opposite of their order.
sort_unstable(S, e, cmp) ==
    Result(StableSort([i \in DOMAIN S.list |-> S.list[Len(S.list) + 1 - i]], cmp),
           S.table, e)

\* A sort that moves the pairs between the nodes and leaves the nodes in place.
sort_swap(S, e, cmp) ==
    Result([i \in DOMAIN S.list |->
               [StableSort(S.list, cmp)[i] EXCEPT !.id = S.list[i].id]],
           S.table, e)

\* sort(fun)
sort(S, e, cmp) == Result(StableSort(S.list, cmp), S.table, e)

\* The loop of merge(other) and of the copy operations over the entries
\* src[i..]: each is appended to the list in a new node and indexed.
RECURSIVE AppendAll(_, _, _, _, _)
AppendAll(S, e, src, i, used) ==
    IF i > Len(src)
    THEN S
    ELSE LET R == insert(S, e, NewNode(used), src[i].key, src[i].val)
         IN  AppendAll([list |-> R.list, table |-> R.table], e, src, i + 1,
                       used \cup {NewNode(used)})

Empty == [list |-> <<>>, table |-> <<>>]

\* A merge that leaves other as it was.
merge_keep(S, O, e, used) == [this |-> AppendAll(S, e, O.list, 1, used), other |-> O]

\* this->merge(std::move(other)) for another object: the new values of this
\* and of other.  used: the addresses of the live nodes.
merge(S, O, e, used) == [this |-> AppendAll(S, e, O.list, 1, used), other |-> Empty]

\* A copy that takes the entries from the last to the first.
copy_reverse(O, e, used) ==
    [this |-> AppendAll(Empty, e,
                        [i \in DOMAIN O.list |-> O.list[Len(O.list) + 1 - i]],
                        1, used),
     other |-> O]

\* A copy that copies the table as it is, handles included.
copy_shallow(O, e, used) ==
    [this |-> [list |-> AppendAll(Empty, e, O.list, 1, used).list,
               table |-> O.table],
     other |-> O]

\* Copy constructor, and copy assignment from another object (after
\* this->clear()).  used: the addresses of the nodes live after the clear.
copy(O, e, used) == [this |-> AppendAll(Empty, e, O.list, 1, used), other |-> O]

\* A move that leaves the source as it was.
move_keep(O) == [this |-> O, other |-> O]

\* Move constructor, and move assignment from another object: the list nodes
\* and the table change owner, the source is left empty.
move(O) == [this |-> O, other |-> Empty]

----------------------------------------------------------------------------
\* The state machine: two container objects, "A" and "B"; pc and it are the
\* caller's erase-everything loop (it = begin(); while (it != end())
\* it = erase(it)); last names the last operation, its arguments and what it
\* returned; for a call whose loop the model takes step by step, n is size()
\* at the call and i the number of iterations done.  An operation on one
\* container takes a flag d: with d it is
\* recorded in full, without d only the container is recorded.  calls is the
\* caller's record of the recorded insert and emplace calls on a container
\* since it was last empty: ok says that no other call came in between.

Cont(c) == [list |-> list[c], table |-> table[c]]

Live == Ids(list["A"]) \cup Ids(list["B"])

\* Container c has room for n more entries under the bound cap.
Room(c, n, cap) == Len(list[c]) + n <= cap

NoArgs == [k |-> 0, v |-> 0, h |-> 0, cmp |-> "", out |-> <<>>, n |-> 0, i |-> 0]

Record(op, c, args, r) ==
    [op |-> op, c |-> c, k |-> args.k, v |-> args.v, h |-> args.h,
     cmp |-> args.cmp, ret |-> r, out |-> args.out, n |-> args.n, i |-> args.i]

NoCalls == [ok |-> TRUE, seq |-> <<>>]

Log(d, op, c, args, r) ==
    /\ last' = IF d THEN Record(op, c, args, r) ELSE Record("op", c, NoArgs, 0)
    /\ calls' = IF ~d THEN calls
                ELSE IF op \in {"insert", "emplace"}
                     THEN [calls EXCEPT !.seq = IF calls.ok
                                                THEN Append(@, <<args.k, args.v>>)
                                                ELSE @]
                ELSE IF list'[c] = <<>> THEN NoCalls
                ELSE [ok |-> FALSE, seq |-> <<>>]

Apply(c, R) ==
    /\ list' = [list EXCEPT ![c] = R.list]
    /\ table' = [table EXCEPT ![c] = R.table]

ApplyBoth(c, R) ==
    /\ list' = [list EXCEPT ![c] = R.this.list, ![Other(c)] = R.other.list]
    /\ table' = [table EXCEPT ![c] = R.this.table, ![Other(c)] = R.other.table]

Init ==
    /\ list = [c \in Containers |-> <<>>]
    /\ table = [c \in Containers |-> <<>>]
    /\ pc = "idle"
    /\ it = Bad
    /\ last = Record("init", "A", NoArgs, 0)
    /\ calls = NoCalls

Insert(c, k, v, d) ==
    /\ pc = "idle"
    /\ LET R == insert(Cont(c), End(c), NewNode(Live), k, v)
       IN  /\ Apply(c, R)
           /\ Log(d, "insert", c, [NoArgs EXCEPT !.k = k, !.v = v], R.ret)
    /\ UNCHANGED <<pc, it>>

\* emplace(key, args...) builds the value from args in the new node; the
\* list and the table change as in insert.
Emplace(c, k, v, d) ==
    /\ pc = "idle"
    /\ LET R == insert(Cont(c), End(c), NewNode(Live), k, v)
       IN  /\ Apply(c, R)
           /\ Log(d, "emplace", c, [NoArgs EXCEPT !.k = k, !.v = v], R.ret)
    /\ UNCHANGED <<pc, it>>

Update(c, k, v, d) ==
    /\ pc = "idle"
    /\ LET R == update(Cont(c), End(c), NewNode(Live), k, v)
       IN  /\ Apply(c, R)
           /\ Log(d, "update", c, [NoArgs EXCEPT !.k = k, !.v = v], R.ret)
    /\ UNCHANGED <<pc, it>>

EraseKey(c, k, d) ==
    /\ pc = "idle"
    /\ LET R == erase_key(Cont(c), End(c), k)
       IN  /\ Apply(c, R)
           /\ Log(d, "erase_key", c, [NoArgs EXCEPT !.k = k], R.ret)
    /\ UNCHANGED <<pc, it>>

\* erase(it_list) with a handle of a live entry of the container.
EraseIt(c, h, d) ==
    /\ pc = "idle"
    /\ h \in Ids(list[c])
    /\ LET R == erase_it(Cont(c), End(c), h)
       IN  /\ Apply(c, R)
           /\ Log(d, "erase_it", c, [NoArgs EXCEPT !.h = h], R.ret)
    /\ UNCHANGED <<pc, it>>

\* c.erase(it_list) with a handle of a live entry of the other container.
EraseForeign(c, h) ==
    /\ pc = "idle"
    /\ h \in Ids(list[Other(c)])
    /\ LET R == erase_foreign(Cont(c), End(c), list[Other(c)], End(Other(c)), h)
       IN  /\ Apply(c, R)
           /\ last' = Record("erase_foreign", c, [NoArgs EXCEPT !.h = h], R.ret)
    /\ UNCHANGED <<pc, it, calls>>

EraseKeyValue(c, k, v, d) ==
    /\ pc = "idle"
    /\ LET R == erase_key_value(Cont(c), End(c), k, v)
       IN  /\ Apply(c, R)
           /\ Log(d, "erase_key_value", c,
                             [NoArgs EXCEPT !.k = k, !.v = v], R.ret)
    /\ UNCHANGED <<pc, it>>

Extract(c, k, d) ==
    /\ pc = "idle"
    /\ LET R == extract(Cont(c), End(c), k)
       IN  /\ Apply(c, R)
           /\ Log(d, "extract", c,
                             [NoArgs EXCEPT !.k = k, !.out = R.ret], 0)
    /\ UNCHANGED <<pc, it>>

Sort(c, cmp, d) ==
    /\ pc = "idle"
    /\ Apply(c, sort(Cont(c), End(c), cmp))
    /\ Log(d, "sort", c, [NoArgs EXCEPT !.cmp = cmp], 0)
    /\ UNCHANGED <<pc, it>>

\* clear(); the record holds the values that c had.
Clear(c, d) ==
    /\ pc = "idle"
    /\ Apply(c, clear(Cont(c), End(c)))
    /\ Log(d, "clear", c, [NoArgs EXCEPT !.out = values(Cont(c))], 0)
    /\ UNCHANGED <<pc, it>>

\* c.merge(std::move(o)) for two different objects; the record holds the
\* values that o had.
Merge(c) ==
    /\ pc = "idle"
    /\ ApplyBoth(c, merge(Cont(c), Cont(Other(c)), End(c), Live))
    /\ last' = Record("merge", c,
                      [NoArgs EXCEPT !.out = values(Cont(Other(c)))], 0)
    /\ UNCHANGED <<pc, it, calls>>

\* c = o for two different objects: this->clear(), then the copy loop.  On an
\* empty c this is the copy constructor.
CopyAssign(c) ==
    /\ pc = "idle"
    /\ ApplyBoth(c, copy(Cont(Other(c)), End(c), Ids(list[Other(c)])))
    /\ last' = Record("copy", c, NoArgs, 0)
    /\ UNCHANGED <<pc, it, calls>>

\* c = std::move(o) for two different objects: this->clear(), then both
\* members are move-assigned.  On an empty c this is the move constructor.
\* The record holds the values that c had.
MoveAssign(c) ==
    /\ pc = "idle"
    /\ ApplyBoth(c, move(Cont(Other(c))))
    /\ last' = Record("move", c, [NoArgs EXCEPT !.out = values(Cont(c))], 0)
    /\ UNCHANGED <<pc, it, calls>>

\* c = c and c = std::move(c): this == &other, nothing is done.
SelfAssign(c) ==
    /\ pc = "idle"
    /\ last' = Record("self_assign", c, NoArgs, 0)
    /\ UNCHANGED <<list, table, pc, it, calls>>

\* it = table.begin()
LoopBegin(c) ==
    /\ pc = "idle"
    /\ pc' = "loop"
    /\ it' = Begin(list[c], End(c))
    /\ last' = Record("begin", c, NoArgs, Begin(list[c], End(c)))
    /\ UNCHANGED <<list, table, calls>>

\* it != table.end(): it = table.erase(it)
LoopErase(c) ==
    /\ pc = "loop"
    /\ last.c = c
    /\ it \in Ids(list[c])
    /\ LET R == erase_it(Cont(c), End(c), it)
       IN  /\ Apply(c, R)
           /\ it' = R.ret
           /\ Log(TRUE, "erase_it", c, [NoArgs EXCEPT !.h = it], R.ret)
    /\ UNCHANGED pc

\* The loop is over: it == table.end(), or it is the handle of an erased
\* entry, which the loop cannot pass to erase.
LoopExit(c) ==
    /\ pc = "loop"
    /\ last.c = c
    /\ it \notin Ids(list[c])
    /\ pc' = "idle"
    /\ it' = Bad
    /\ last' = Record(IF it = End(c) THEN "loop_done" ELSE "loop_stale",
                      c, [NoArgs EXCEPT !.h = it], 0)
    /\ UNCHANGED <<list, table, calls>>

\* c.merge(std::move(c)): other is *this.  it = other.list.begin()
MergeSelfBegin(c) ==
    /\ pc = "idle"
    /\ pc' = "merge"
    /\ it' = Begin(list[c], End(c))
    /\ last' = Record("merge_self", c, [NoArgs EXCEPT !.n = size(Cont(c))], 0)
    /\ calls' = IF list[c] = <<>> THEN NoCalls ELSE [ok |-> FALSE, seq |-> <<>>]
    /\ UNCHANGED <<list, table>>

\* it != other.list.end(): *it is appended to list (which is other.list) in a
\* new node and indexed; ++it.
MergeSelfStep(c) ==
    /\ pc = "merge"
    /\ last.c = c
    /\ it # End(c)
    /\ LET x == Deref(list[c], it)
           R == insert(Cont(c), End(c), NewNode(Live), x.key, x.val)
       IN  /\ Apply(c, R)
           /\ it' = StdNext(R.list, End(c), it)
    /\ last' = [last EXCEPT !.i = @ + 1]
    /\ UNCHANGED <<pc, calls>>

\* it == other.list.end(): other.clear(), which clears *this.
MergeSelfExit(c) ==
    /\ pc = "merge"
    /\ last.c = c
    /\ it = End(c)
    /\ Apply(c, clear(Cont(c), End(c)))
    /\ pc' = "idle"
    /\ it' = Bad
    /\ last' = [last EXCEPT !.op = "merge_self_done"]
    /\ UNCHANGED calls

\* One container object, "A", of at most MaxNodes entries.
Next ==
    \/ \E k \in Keys, v \in Vals :
          Room("A", 1, MaxNodes) /\ Insert("A", k, v, TRUE)
    \/ \E k \in Keys, v \in Vals :
          Room("A", 1, MaxNodes) /\ Emplace("A", k, v, TRUE)
    \/ \E k \in Keys, v \in Vals :
          (has(Cont("A"), k) \/ Room("A", 1, MaxNodes)) /\ Update("A", k, v, TRUE)
    \/ \E k \in Keys : EraseKey("A", k, TRUE)
    \/ \E h \in Nodes : EraseIt("A", h, TRUE)
    \/ \E k \in Keys, v \in Vals : EraseKeyValue("A", k, v, TRUE)
    \/ \E k \in Keys : Extract("A", k, TRUE)
    \/ \E cmp \in Cmps : Sort("A", cmp, TRUE)
    \/ Clear("A", TRUE)
    \/ LoopBegin("A")
    \/ LoopErase("A")
    \/ LoopExit("A")
    \/ MergeSelfBegin("A")
    \/ Room("A", 1, MaxNodes) /\ MergeSelfStep("A")
    \/ MergeSelfExit("A")

Spec == Init /\ [][Next]_vars

\* Two container objects, "A" and "B", of at most MaxPair entries each.
NextPair ==
    \/ \E c \in Containers, k \in Keys, v \in Vals :
          Room(c, 1, MaxPair) /\ Insert(c, k, v, FALSE)
    \/ \E c \in Containers, k \in Keys, v \in Vals :
          Room(c, 1, MaxPair) /\ Emplace(c, k, v, FALSE)
    \/ \E c \in Containers, k \in Keys, v \in Vals :
          (has(Cont(c), k) \/ Room(c, 1, MaxPair)) /\ Update(c, k, v, FALSE)
    \/ \E c \in Containers, k \in Keys : EraseKey(c, k, FALSE)
    \/ \E c \in Containers, h \in Nodes : EraseIt(c, h, FALSE)
    \/ \E c \in Containers, h \in Nodes : EraseForeign(c, h)
    \/ \E c \in Containers, k \in Keys, v \in Vals : EraseKeyValue(c, k, v, FALSE)
    \/ \E c \in Containers, k \in Keys : Extract(c, k, FALSE)
    \/ \E c \in Containers, cmp \in Cmps : Sort(c, cmp, FALSE)
    \/ \E c \in Containers : Clear(c, FALSE)
    \/ \E c \in Containers : Room(c, Len(list[Other(c)]), MaxPair) /\ Merge(c)
    \/ \E c \in Containers : CopyAssign(c)
    \/ \E c \in Containers : MoveAssign(c)
    \/ \E c \in Containers : SelfAssign(c)

SpecPair == Init /\ [][NextPair]_vars

----------------------------------------------------------------------------
\* Properties.

ContOf(l, t) == [list |-> l, table |-> t]

\* The entries of l with key k, in sequence order.
WithKey(l, k) == SelectSeq(l, LAMBDA x : x.key = k)

\* The entries of l with another key than k, in sequence order.
WithoutKey(l, k) == SelectSeq(l, LAMBDA x : x.key # k)

IdsOf(l) == [i \in DOMAIN l |-> l[i].id]

\* The handles that for (it = b; it != e; ++it) visits in list l with end
\* sentinel end: up to e when e lies ahead of b, otherwise up to and
\* including the sentinel, where the walk leaves the list.
Walk(l, end, b, e) ==
    LET from == IF b = end THEN Len(l) + 1 ELSE Pos(l, b)
        to   == IF e = end THEN Len(l) + 1 ELSE Pos(l, e)
    IN  IF b = e THEN <<>>
        ELSE IF from = 0 THEN <<b>>
        ELSE IF to >= from THEN IdsOf(SubSeq(l, from, to - 1))
        ELSE IdsOf(SubSeq(l, from, Len(l))) \o <<end>>

\* The list and the table of container c correspond one to one.
Consistent(c) ==
    /\ Len(table[c]) = Len(list[c])
    /\ \A i, j \in DOMAIN list[c] : list[c][i].id = list[c][j].id => i = j
    /\ \A i \in DOMAIN list[c] :
          /\ Cardinality({j \in DOMAIN table[c] : table[c][j].it = list[c][i].id}) = 1
          /\ \A j \in DOMAIN table[c] :
                table[c][j].it = list[c][i].id => table[c][j].key = list[c][i].key
    /\ \A j \in DOMAIN table[c] :
          /\ table[c][j].it \in Ids(list[c])
          /\ table[c][j].it \notin Ids(list[Other(c)])
          /\ Deref(list[c], table[c][j].it).key = table[c][j].key
    /\ \A i, j \in DOMAIN table[c] : i < j => table[c][i].key <= table[c][j].key

\* C1: in every reachable state of two containers under all operations, each
\* container's list and table are in 1:1 correspondence: every list entry has
\* exactly one table entry with its key and its handle, and every table entry
\* holds the handle of a live entry of the same container with the same key.
C1_Correspondence == \A c \in Containers : Consistent(c)

\* A merge has filled a container whose table then holds the merged entries.
C1_Witness ==
    /\ last.op = "merge"
    /\ Len(list[last.c]) = MaxPair
    /\ list[Other(last.c)] = <<>>

\* C2: for every key k, walking the pair that equal_range(k) returns visits
\* exactly the entries with key k, each once, in sequence order, and the pair
\* is [end, end) when k is absent.
C2_EqualRangeExact ==
    \A k \in Keys : \A r \in equal_range(Cont("A"), End("A"), k) :
        /\ Walk(list["A"], End("A"), r[1], r[2]) = IdsOf(WithKey(list["A"], k))
        /\ WithKey(list["A"], k) = <<>> => r = <<End("A"), End("A")>>

\* C3: erase(h) with a live handle h removes the entry h denotes and its one
\* table entry, and nothing else: every other entry stays, in the same order.
C3_EraseItExact ==
    [][last'.op = "erase_it" =>
          /\ list'["A"] = ListErase(list["A"], last'.h)
          /\ Len(list'["A"]) = Len(list["A"]) - 1
          /\ Len(table'["A"]) = Len(table["A"]) - 1]_vars

\* C4: find(k) returns the handle of the entry with key k that is first in
\* the current sequence order, and end() exactly when no entry has key k.
C4_FindFirst ==
    \A k \in Keys :
        find(Cont("A"), End("A"), k) =
            IF WithKey(list["A"], k) = <<>> THEN End("A")
            ELSE WithKey(list["A"], k)[1].id

\* C5: after erase(k) no entry with key k remains (count(k) = 0, has(k) is
\* false, find(k) = end()), size has gone down by the previous count(k), and
\* the entries with other keys are unchanged, in their order.
C5_EraseKeyComplete ==
    [][last'.op = "erase_key" =>
          LET k    == last'.k
              post == ContOf(list'["A"], table'["A"])
          IN  /\ count(post, k) = 0
              /\ ~has(post, k)
              /\ find(post, End("A"), k) = End("A")
              /\ WithKey(post.list, k) = <<>>
              /\ size(post) = size(Cont("A")) - count(Cont("A"), k)
              /\ count(Cont("A"), k) = Len(WithKey(list["A"], k))
              /\ post.list = WithoutKey(list["A"], k)
              /\ \A j \in Keys : j # k => count(post, j) = count(Cont("A"), j)]_vars

\* erase(k) has removed the entries of a present key and another entry is left.
C5_Witness ==
    /\ last.op = "erase_key"
    /\ last.ret # End("A")
    /\ list["A"] # <<>>
    /\ count(Cont("A"), last.k) = 0

\* The handle erase(k) is specified to return for a present key k: the first
\* entry after the first occurrence of k that the call does not erase, end()
\* when there is none.
NextSurvivor(l, e, k) ==
    LET first == CHOOSE i \in DOMAIN l :
                    l[i].key = k /\ \A j \in DOMAIN l : l[j].key = k => i <= j
        rest  == WithoutKey(SubSeq(l, first + 1, Len(l)), k)
    IN  IF rest = <<>> THEN e ELSE rest[1].id

\* C6: for a present key k, the handle erase(k) returns is end() or the handle
\* of an entry that is live after the call, never of an entry the call erased:
\* the surviving entry that comes next after the erased occurrences.
C6_EraseKeyReturnsLive ==
    [][(last'.op = "erase_key" /\ has(Cont("A"), last'.k)) =>
          /\ last'.ret \in Ids(list'["A"]) \cup {End("A")}
          /\ last'.ret = NextSurvivor(list["A"], End("A"), last'.k)]_vars

\* C7: erase(h) with a live handle h returns the handle of the entry that
\* followed h's entry before the call, live after the call, or end() if h
\* denoted the last entry; so the loop it = begin(); while (it != end())
\* it = erase(it) passes only live handles to erase and ends with the
\* container empty.
C7_EraseItReturnsNext ==
    [][/\ last'.op = "erase_it" =>
             /\ last'.ret = StdNext(list["A"], End("A"), last'.h)
             /\ last'.ret \in Ids(list'["A"]) \cup {End("A")}
       /\ pc' = "loop" => it' \in Ids(list'["A"]) \cup {End("A")}
       /\ last'.op # "loop_stale"
       /\ last'.op = "loop_done" => list'["A"] = <<>>]_vars

\* C8: extract(k) returns the values of the entries with key k in the order
\* these entries have in the sequence at the call, removes exactly these
\* entries (count(k) = 0 afterwards) and leaves the others unchanged, in their
\* order; for an absent key it returns nothing and changes nothing.
C8_ExtractInSequenceOrder ==
    [][last'.op = "extract" =>
          LET k    == last'.k
              post == ContOf(list'["A"], table'["A"])
          IN  /\ last'.out = values(ContOf(WithKey(list["A"], k), <<>>))
              /\ post.list = WithoutKey(list["A"], k)
              /\ count(post, k) = 0
              /\ ~has(Cont("A"), k) =>
                    /\ last'.out = <<>>
                    /\ post = Cont("A")]_vars

\* The step erases the entry (or every entry) that node x holds on purpose.
Targets(l, x) ==
    \/ l.op = "clear"
    \/ l.op \in {"erase_key", "extract"} /\ l.k = x.key
    \/ l.op = "erase_it" /\ l.h = x.id
    \/ l.op = "erase_key_value" /\ l.k = x.key /\ l.v = x.val

\* C9: a handle keeps denoting the same entry (same key; same value unless an
\* update wrote it) across every operation that does not erase that entry:
\* insert, emplace, update, sort, and erase(key), erase(handle'),
\* erase(key, value) and extract directed at other entries.
C9_HandlesStable ==
    [][\A i \in DOMAIN list["A"] :
          LET x == list["A"][i]
          IN  ~Targets(last', x) =>
                 /\ x.id \in Ids(list'["A"])
                 /\ Deref(list'["A"], x.id).key = x.key
                 /\ (last'.op # "update" \/ last'.k # x.key) =>
                       Deref(list'["A"], x.id).val = x.val]_vars

\* C10: sort(cmp) changes only the order of the list: every handle
\* dereferences to the same (key, value) pair as before, the entries and
\* size() are the same, the table is unchanged, and count(k) and has(k) give
\* the same for every key k.
C10_SortFrame ==
    [][last'.op = "sort" =>
          LET post == ContOf(list'["A"], table'["A"])
          IN  /\ table'["A"] = table["A"]
              /\ size(post) = size(Cont("A"))
              /\ Ids(post.list) = Ids(list["A"])
              /\ \A h \in Ids(list["A"]) : Deref(post.list, h) = Deref(list["A"], h)
              /\ \A k \in Keys :
                    /\ count(post, k) = count(Cont("A"), k)
                    /\ has(post, k) = has(Cont("A"), k)]_vars

\* A sort has put two entries of one key in the opposite of their table order.
C10_Witness ==
    /\ last.op = "sort"
    /\ \E i, j \in DOMAIN table["A"] :
          /\ i < j
          /\ table["A"][i].key = table["A"][j].key
          /\ Pos(list["A"], table["A"][i].it) > Pos(list["A"], table["A"][j].it)

\* C11: update(k, v) on a present key k sets the value of every entry with key
\* k to v and changes nothing else: the entries keep their handles, keys and
\* order, the entries with other keys keep their values, the table, size()
\* and count(k) are the same.  On an absent key it does what insert(k, v)
\* does: one new entry (k, v) is appended at the end, indexed under k, and its
\* handle is returned.
C11_UpdateFrame ==
    [][last'.op = "update" =>
          LET k    == last'.k
              v    == last'.v
              pre  == Cont("A")
              post == ContOf(list'["A"], table'["A"])
          IN  IF WithKey(pre.list, k) # <<>>
              THEN /\ post.table = pre.table
                   /\ size(post) = size(pre)
                   /\ count(post, k) = count(pre, k)
                   /\ \A i \in DOMAIN pre.list :
                         /\ post.list[i].id = pre.list[i].id
                         /\ post.list[i].key = pre.list[i].key
                         /\ post.list[i].val =
                               IF pre.list[i].key = k THEN v ELSE pre.list[i].val
              ELSE /\ last'.ret \notin Ids(pre.list)
                   /\ post.list =
                         Append(pre.list, [id |-> last'.ret, key |-> k, val |-> v])
                   /\ post.table = TableInsert(pre.table, k, last'.ret)
                   /\ post = ContOf(insert(pre, End("A"), last'.ret, k, v).list,
                                    insert(pre, End("A"), last'.ret, k, v).table)
                   /\ count(post, k) = 1
                   /\ \A j \in Keys : j # k => count(post, j) = count(pre, j)]_vars

\* update(k, v) has written two entries of key k next to an entry of another
\* key that holds another value.
C11_Witness ==
    /\ last.op = "update"
    /\ Len(WithKey(list["A"], last.k)) = 2
    /\ \A i \in DOMAIN list["A"] :
          list["A"][i].key = last.k => list["A"][i].val = last.v
    /\ \E i \in DOMAIN list["A"] :
          list["A"][i].key # last.k /\ list["A"][i].val # last.v

\* C12: on a present key k, the handle update(k, v) returns is the handle of
\* the entry with key k that is first in the current sequence order, and that
\* entry holds v.
C12_UpdateReturnsFirst ==
    [][(last'.op = "update" /\ WithKey(list["A"], last'.k) # <<>>) =>
          /\ last'.ret = WithKey(list'["A"], last'.k)[1].id
          /\ Deref(list'["A"], last'.ret).val = last'.v]_vars

\* C13: after c.merge(o) of two distinct containers, the sequence of c is the
\* old sequence of c followed by the entries of o in o's order, o is empty
\* (list and table), count(k) of c is the sum of the two old counts for every
\* key k, the old entries of c are at their handles, and the table of c holds
\* handles of entries of c only, none of a node that o had.
C13_MergeAppends ==
    [][last'.op = "merge" =>
          LET c    == last'.c
              o    == Other(last'.c)
              post == ContOf(list'[c], table'[c])
              n    == Len(list[c])
          IN  /\ keys(post) = keys(Cont(c)) \o keys(Cont(o))
              /\ values(post) = values(Cont(c)) \o values(Cont(o))
              /\ list'[o] = <<>>
              /\ table'[o] = <<>>
              /\ size(ContOf(list'[o], table'[o])) = 0
              /\ \A k \in Keys :
                    /\ count(post, k) = count(Cont(c), k) + count(Cont(o), k)
                    /\ Len(WithKey(post.list, k)) =
                          Len(WithKey(list[c], k)) + Len(WithKey(list[o], k))
              /\ SubSeq(post.list, 1, n) = list[c]
              /\ \A i \in (n + 1) .. Len(post.list) :
                    post.list[i].id \notin Ids(list[c]) \cup Ids(list[o])
              /\ \A j \in DOMAIN post.table :
                    /\ post.table[j].it \in Ids(post.list)
                    /\ post.table[j].it \notin Ids(list[o])
                    /\ Deref(post.list, post.table[j].it).key = post.table[j].key
              /\ Len(post.table) = Len(post.list)]_vars

\* A merge has moved an entry of the other container behind an entry the
\* container had, and the two hold different values.
C13_Witness ==
    /\ last.op = "merge"
    /\ last.out # <<>>
    /\ Len(list[last.c]) > Len(last.out)
    /\ list[last.c][1].val # list[last.c][Len(list[last.c])].val
    /\ list[Other(last.c)] = <<>>

\* The indices of the entries of l with key k and value v.
Matches(l, k, v) == {i \in DOMAIN l : l[i].key = k /\ l[i].val = v}

\* l without its i-th element.
Without(l, i) == SubSeq(l, 1, i - 1) \o SubSeq(l, i + 1, Len(l))

\* C14: erase(k, v) removes at most one entry.  If some entry has key k and
\* value v, exactly one such entry leaves the list and its one table entry
\* leaves the table, 1 is returned, and every other entry (the other entries
\* with key k too) keeps its handle, key, value and relative order.  If no
\* entry has both, 0 is returned and the list and the table are unchanged.
C14_EraseKeyValueOne ==
    [][last'.op = "erase_key_value" =>
          LET pre  == Cont("A")
              post == ContOf(list'["A"], table'["A"])
              M    == Matches(pre.list, last'.k, last'.v)
          IN  IF M # {}
              THEN /\ last'.ret = 1
                   /\ \E i \in M :
                         /\ post.list = Without(pre.list, i)
                         /\ post.table =
                               SelectSeq(pre.table,
                                         LAMBDA x : x.it # pre.list[i].id)
                   /\ size(post) = size(pre) - 1
                   /\ Len(post.table) = Len(pre.table) - 1
              ELSE /\ last'.ret = 0
                   /\ post = pre]_vars

\* erase(k, v) has removed one entry and left another entry (k, v) and an
\* entry of key k with another value.
C14_Witness ==
    /\ last.op = "erase_key_value"
    /\ last.ret = 1
    /\ Matches(list["A"], last.k, last.v) # {}
    /\ \E i \in DOMAIN list["A"] :
          list["A"][i].key = last.k /\ list["A"][i].val # last.v

\* C15: when several entries have key k and value v, erase(k, v) removes the
\* one of them that is first in the current sequence order.
C15_EraseKeyValueFirst ==
    [][(last'.op = "erase_key_value"
          /\ Matches(list["A"], last'.k, last'.v) # {}) =>
          LET M == Matches(list["A"], last'.k, last'.v)
              i == CHOOSE x \in M : \A y \in M : x <= y
          IN  list'["A"] = Without(list["A"], i)]_vars

\* C16: c.erase(h) with a handle h that denotes no entry of c (a handle of an
\* entry of the other container, for instance of a copy of c) changes neither
\* the list nor the table of c and returns c's end().
C16_ForeignEraseNoOp ==
    [][last'.op = "erase_foreign" =>
          /\ list'[last'.c] = list[last'.c]
          /\ table'[last'.c] = table[last'.c]
          /\ last'.ret = End(last'.c)]_vars

\* No entry of list l has key k.
Absent(l, k) == WithKey(l, k) = <<>>

\* C17: for a key k that no entry has, in every reachable state find(k) is
\* end(), has(k) is false, count(k) is 0 and equal_range(k) is [end, end);
\* erase(k) returns end() and extract(k) returns the empty sequence, and both
\* leave the list and the table as they were.
C17_AbsentKey ==
    /\ [](\A k \in Keys :
            Absent(list["A"], k) =>
               /\ find(Cont("A"), End("A"), k) = End("A")
               /\ ~has(Cont("A"), k)
               /\ count(Cont("A"), k) = 0
               /\ equal_range(Cont("A"), End("A"), k) = {<<End("A"), End("A")>>})
    /\ [][/\ (last'.op = "erase_key" /\ Absent(list["A"], last'.k)) =>
                /\ last'.ret = End("A")
                /\ list'["A"] = list["A"]
                /\ table'["A"] = table["A"]
          /\ (last'.op = "extract" /\ Absent(list["A"], last'.k)) =>
                /\ last'.out = <<>>
                /\ list'["A"] = list["A"]
                /\ table'["A"] = table["A"]]_vars

\* erase(k) for an absent key k has returned end() on a container that holds
\* an entry of a greater key.
C17_Witness ==
    /\ last.op = "erase_key"
    /\ last.ret = End("A")
    /\ Absent(list["A"], last.k)
    /\ \E i \in DOMAIN list["A"] : list["A"][i].key > last.k

\* The values of the calls in s (pairs <<key, value>>) that have key k.
CallValues(s, k) ==
    LET with == SelectSeq(s, LAMBDA x : x[1] = k)
    IN  [i \in DOMAIN with |-> with[i][2]]

\* C18: insert(k, v) and emplace(k, v) succeed whether or not k is present:
\* size() grows by one, the new entry (k, v) is the last of the sequence in a
\* node of its own, count(k) grows by one, the entries there were keep their
\* handle, key, value and order, and the handle returned denotes the new
\* entry.  After n calls with the same key there are n entries of that key,
\* each with the value of its call.
C18_InsertAppends ==
    /\ [][last'.op \in {"insert", "emplace"} =>
             LET pre  == Cont("A")
                 post == ContOf(list'["A"], table'["A"])
             IN  /\ size(post) = size(pre) + 1
                 /\ SubSeq(post.list, 1, size(pre)) = pre.list
                 /\ post.list[size(post)] =
                       [id |-> last'.ret, key |-> last'.k, val |-> last'.v]
                 /\ last'.ret \notin Ids(pre.list)
                 /\ Deref(post.list, last'.ret).key = last'.k
                 /\ Deref(post.list, last'.ret).val = last'.v
                 /\ count(post, last'.k) = count(pre, last'.k) + 1
                 /\ \A j \in Keys :
                       j # last'.k => count(post, j) = count(pre, j)]_vars
    /\ [](calls.ok =>
            \A k \in Keys :
               /\ count(Cont("A"), k) = Len(CallValues(calls.seq, k))
               /\ values(ContOf(WithKey(list["A"], k), <<>>)) =
                     CallValues(calls.seq, k)
               /\ Cardinality(Ids(WithKey(list["A"], k))) =
                     Len(CallValues(calls.seq, k)))

\* An insert or emplace of a key that two entries have already, with
\* another value than the first of them.
C18_Witness ==
    /\ last.op \in {"insert", "emplace"}
    /\ calls.ok
    /\ count(Cont("A"), last.k) = MaxNodes
    /\ list["A"][1].val # last.v
    /\ Deref(list["A"], last.ret) = list["A"][MaxNodes]

\* The sequence s in the opposite order.
Rev(s) == [i \in DOMAIN s |-> s[Len(s) + 1 - i]]

\* C19: after a sequence of insert and emplace calls on an empty container,
\* with no other call in between, the traversal from begin() to end() gives
\* the entries in the order of the calls and the traversal from rbegin() to
\* rend() gives them in the opposite order.
C19_InsertionOrder ==
    calls.ok =>
       /\ Forward(list["A"], End("A"), Begin(list["A"], End("A"))) = calls.seq
       /\ Backward(list["A"], End("A"), End("A")) = Rev(calls.seq)

\* MaxNodes insert and emplace calls with no other call in between, the first
\* and the last with different entries.
C19_Witness ==
    /\ calls.ok
    /\ Len(calls.seq) = MaxNodes
    /\ calls.seq[1] # calls.seq[MaxNodes]
    /\ calls.seq[1] # calls.seq[2]

\* The sum of count(k) of S over the keys 1 .. n.
RECURSIVE SumCount(_, _)
SumCount(S, n) == IF n = 0 THEN 0 ELSE count(S, n) + SumCount(S, n - 1)

\* C20: in every reachable state of each container and for every key k,
\* count(k) is the number of entries of the list with key k, has(k) holds
\* exactly when count(k) > 0 and exactly when find(k) is not end(), and the
\* sum of count(k) over all keys is size().
C20_CountHasFind ==
    \A c \in Containers :
       /\ \A k \in Keys :
             /\ count(Cont(c), k) = Len(WithKey(list[c], k))
             /\ has(Cont(c), k) <=> count(Cont(c), k) > 0
             /\ has(Cont(c), k) <=> find(Cont(c), End(c), k) # End(c)
       /\ SumCount(Cont(c), MaxKey) = size(Cont(c))

\* One container holds two entries of one key and none of another key; the
\* other container holds an entry of that other key.
C20_Witness ==
    \E c \in Containers : \E k, j \in Keys :
       /\ count(Cont(c), k) = 2
       /\ ~has(Cont(c), j)
       /\ has(Cont(Other(c)), j)

C22_CopyIndependent ==
    /\ [](Ids(list["A"]) \cap Ids(list["B"]) = {})
    /\ [][/\ last'.op = "copy" =>
               LET c == last'.c
                   o == Other(last'.c)
               IN  /\ keys(ContOf(list'[c], table'[c])) = keys(Cont(o))
                   /\ values(ContOf(list'[c], table'[c])) = values(Cont(o))
                   /\ list'[o] = list[o]
                   /\ table'[o] = table[o]
                   /\ Len(table'[c]) = Len(list'[c])
                   /\ \A j \in DOMAIN table'[c] :
                         /\ table'[c][j].it \in Ids(list'[c])
                         /\ table'[c][j].it \notin Ids(list[o])
                         /\ Deref(list'[c], table'[c][j].it).key = table'[c][j].key
          /\ last'.op \in {"op", "erase_foreign"} =>
                 /\ list'[Other(last'.c)] = list[Other(last'.c)]
                 /\ table'[Other(last'.c)] = table[Other(last'.c)]
          /\ last'.op = "self_assign" =>
                 /\ list' = list
                 /\ table' = table]_vars

\* A copy of a container of two different entries that a sort has put in
\* another order than the one of their insertion.
C22_Witness ==
    /\ last.op = "copy"
    /\ Len(list[last.c]) = MaxPair
    /\ keys(Cont(last.c)) = keys(Cont(Other(last.c)))
    /\ values(Cont(last.c)) = values(Cont(Other(last.c)))
    /\ list[last.c][1].val # list[last.c][2].val
    /\ \E i, j \in DOMAIN table[Other(last.c)] :
          /\ i < j
          /\ table[Other(last.c)][i].key = table[Other(last.c)][j].key
          /\ Pos(list[Other(last.c)], table[Other(last.c)][i].it)
                > Pos(list[Other(last.c)], table[Other(last.c)][j].it)

\* C23: a move (construction or assignment) from container o gives c the
\* whole list and table of o, the nodes themselves, so that nothing c held
\* before is left in its list or its table, and leaves o empty in list and
\* table, as clear() does.  A move assignment of a container to itself
\* changes nothing.
C23_MoveTransfers ==
    [][/\ last'.op = "move" =>
            LET c == last'.c
                o == Other(last'.c)
            IN  /\ list'[c] = list[o]
                /\ table'[c] = table[o]
                /\ Ids(list'[c]) \cap Ids(list[c]) = {}
                /\ \A j \in DOMAIN table'[c] : table'[c][j].it \notin Ids(list[c])
                /\ list'[o] = <<>>
                /\ table'[o] = <<>>
                /\ size(ContOf(list'[o], table'[o])) = 0
                /\ ContOf(list'[o], table'[o]) =
                      ContOf(clear(Cont(o), End(o)).list, clear(Cont(o), End(o)).table)
       /\ last'.op = "self_assign" =>
            /\ list'[last'.c] = list[last'.c]
            /\ table'[last'.c] = table[last'.c]]_vars

\* A move of a full container into a container that held entries.
C23_Witness ==
    /\ last.op = "move"
    /\ last.out # <<>>
    /\ Len(list[last.c]) = MaxPair
    /\ list[last.c][1].key # list[last.c][2].key
    /\ list[Other(last.c)] = <<>>
    /\ table[Other(last.c)] = <<>>

\* C24: after sort(cmp) the list is a permutation of the entries it held
\* (the same nodes with the same pairs), no entry is ordered by cmp before an
\* entry that precedes it, and two entries that cmp does not order keep the
\* relative order they had before the call.
C24_SortStable ==
    [][last'.op = "sort" =>
          LET l   == list["A"]
              s   == list'["A"]
              cmp == last'.cmp
          IN  /\ Len(s) = Len(l)
              /\ \A i \in DOMAIN l : \E j \in DOMAIN s : s[j] = l[i]
              /\ \A i, j \in DOMAIN s : s[i].id = s[j].id => i = j
              /\ \A i, j \in DOMAIN s :
                    i < j =>
                       /\ ~Less(cmp, s[j], s[i])
                       /\ ~Less(cmp, s[i], s[j]) => Pos(l, s[i].id) < Pos(l, s[j].id)]_vars

\* A sort has moved an entry to the front, past two entries that the
\* comparison does not order and that differ.
C24_Witness ==
    /\ last.op = "sort"
    /\ Len(list["A"]) = MaxNodes
    /\ list["A"][1].id = MaxNodes
    /\ table["A"][1].it # MaxNodes
    /\ ~Less(last.cmp, list["A"][2], list["A"][3])
    /\ list["A"][2].id < list["A"][3].id
    /\ list["A"][2].key # list["A"][3].key \/ list["A"][2].val # list["A"][3].val
    /\ Less(last.cmp, list["A"][1], list["A"][2])

\* C25: in every reachable state at(i) is the handle of the i-th entry of the
\* sequence (from 0), the one that i steps from begin() reach, for i < size()
\* and end() for i >= size(); index_of(h) is the offset of the live handle h;
\* index_of(at(i)) = i for i < size() and at(index_of(h)) = h for every live
\* handle h.  Both are functions of the state and assign nothing.
C25_AtIndexOf ==
    LET S == Cont("A")
        e == End("A")
    IN  /\ \A i \in 0 .. (MaxNodes + 1) :
              /\ i < size(S) =>
                    /\ at(S, e, i) = S.list[i + 1].id
                    /\ at(S, e, i) = Advance(S.list, e, Begin(S.list, e), i)
                    /\ index_of(S, at(S, e, i)) = i
              /\ i >= size(S) =>
                    /\ at(S, e, i) = e
                    /\ at(S, e, i) = Advance(S.list, e, Begin(S.list, e), size(S))
        /\ \A h \in Ids(S.list) :
              /\ index_of(S, h) \in 0 .. (size(S) - 1)
              /\ S.list[index_of(S, h) + 1].id = h
              /\ Advance(S.list, e, Begin(S.list, e), index_of(S, h)) = h
              /\ at(S, e, index_of(S, h)) = h

\* A full container whose entries are not in the order of their addresses:
\* the entry at the last address is first.
C25_Witness ==
    /\ Len(list["A"]) = MaxNodes
    /\ at(Cont("A"), End("A"), 0) = MaxNodes
    /\ index_of(Cont("A"), 1) > 0
    /\ at(Cont("A"), End("A"), MaxNodes) = End("A")

\* The container that a newly constructed one becomes by the insert calls s
\* (pairs <<key, value>>).
Fresh(s) ==
    AppendAll(Empty, End("A"),
              [i \in DOMAIN s |-> [key |-> s[i][1], val |-> s[i][2]]], 1, {})

\* C26: clear() leaves the list and the table empty: size() = 0,
\* begin() = end(), count(k) = 0 and has(k) false for every key k, which is
\* the state of a newly constructed container; and the insert and emplace
\* calls that follow it give the list and the table that they give on a newly
\* constructed container.
C26_ClearAndReuse ==
    /\ [][last'.op = "clear" =>
             LET post == ContOf(list'["A"], table'["A"])
             IN  /\ post = Empty
                 /\ size(post) = 0
                 /\ Begin(post.list, End("A")) = End("A")
                 /\ \A k \in Keys : count(post, k) = 0 /\ ~has(post, k)
                 /\ calls' = NoCalls]_vars
    /\ [](calls.ok => Cont("A") = Fresh(calls.seq))

\* clear() has emptied a full container.
C26_Witness ==
    /\ last.op = "clear"
    /\ Len(last.out) = MaxNodes
    /\ list["A"] = <<>>
    /\ table["A"] = <<>>

\* C27: in every reachable state and for every key k, the table entries of k,
\* in the table's iteration order, hold the handles of the entries with key k
\* in the order these entries have in the list.
C27_TableInSequenceOrder ==
    \A k \in Keys :
       [j \in 1 .. count(Cont("A"), k) |->
           table["A"][LowerBound(table["A"], k) + j - 1].it]
         = IdsOf(WithKey(list["A"], k))

\* C28: a call ends after a number of steps bounded by the size the container
\* has at the call; for c.merge(std::move(c)) in particular, the loop of merge
\* has done at most size()-at-the-call iterations at any moment, and the
\* iterator has then reached end().
C28_MergeSelfBounded ==
    pc = "merge" =>
       /\ last.i <= last.n
       /\ last.i = last.n => it = End(last.c)

\* The offset of position h in l, the end sentinel e being at offset Len(l).
Offset(l, e, h) == IF h = e THEN Len(l) ELSE Pos(l, h) - 1

\* C29: for a present key k, the two handles equal_range(k) returns are
\* positions of this list (a live entry or end()), the second is at or after
\* the first, and no std::next is taken of end(), also when k is the greatest
\* key of the table and when the container holds one entry.
C29_EqualRangeValid ==
    \A k \in Keys :
       has(Cont("A"), k) =>
          /\ UpperBound(table["A"], k) # Len(table["A"]) + 1
          /\ \A r \in equal_range(Cont("A"), End("A"), k) :
                /\ r[1] \in Ids(list["A"]) \cup {End("A")}
                /\ r[2] \in Ids(list["A"]) \cup {End("A")}
                /\ Offset(list["A"], End("A"), r[1]) <= Offset(list["A"], End("A"), r[2])

\* The keys and the values of the entries of l, in order.
Pairs(l) == [i \in DOMAIN l |-> <<l[i].key, l[i].val>>]

\* The offsets of the entries of l that l2 does not hold.
Removed(l, l2) == {i - 1 : i \in {j \in DOMAIN l : l[j].id \notin Ids(l2)}}

\* C30: right after container c was made a copy of container o, the two
\* behave alike: for every key k, find(k), the handle update(k, v) returns
\* and the handle erase(k) returns are at the same offset of the sequence in
\* c as in o, extract(k) returns the same values, erase(k, v) removes the
\* entry at the same offset, and each of these operations leaves c and o with
\* equal sequences of keys and values.
C30_CopyEquivalent ==
    last.op = "copy" =>
       LET C  == Cont(last.c)
           S  == Cont(Other(last.c))
           ec == End(last.c)
           es == End(Other(last.c))
       IN  /\ Pairs(C.list) = Pairs(S.list)
           /\ \A k \in Keys :
                 /\ Offset(C.list, ec, find(C, ec, k)) = Offset(S.list, es, find(S, es, k))
                 /\ Offset(C.list, ec, erase_key(C, ec, k).ret)
                       = Offset(S.list, es, erase_key(S, es, k).ret)
                 /\ Pairs(erase_key(C, ec, k).list) = Pairs(erase_key(S, es, k).list)
                 /\ extract(C, ec, k).ret = extract(S, es, k).ret
                 /\ Pairs(extract(C, ec, k).list) = Pairs(extract(S, es, k).list)
                 /\ \A v \in Vals :
                       /\ has(S, k) =>
                             /\ Offset(C.list, ec, update(C, ec, Bad, k, v).ret)
                                  = Offset(S.list, es, update(S, es, Bad, k, v).ret)
                             /\ Pairs(update(C, ec, Bad, k, v).list)
                                  = Pairs(update(S, es, Bad, k, v).list)
                       /\ erase_key_value(C, ec, k, v).ret
                             = erase_key_value(S, es, k, v).ret
                       /\ Removed(C.list, erase_key_value(C, ec, k, v).list)
                             = Removed(S.list, erase_key_value(S, es, k, v).list)
                       /\ Pairs(erase_key_value(C, ec, k, v).list)
                             = Pairs(erase_key_value(S, es, k, v).list)
====
